---------------------------- MODULE Spec2Model ----------------------------
(***************************************************************************)
(* Model of the lecture-notes pipeline: core_processing.py (the three      *)
(* stages) and app.py (the Streamlit script that calls them).              *)
(*                                                                         *)
(* Strings are sequences of tokens.  A token is a piece of text that is    *)
(* never split by a substring test of the program: the sentinel phrases    *)
(* ("Error:", "no speech", "Cannot generate notes", ...) are tokens of     *)
(* their own, " " is whitespace, every other token is ordinary text.       *)
(* `x in s` of Python is Contains(s, x), s.strip() is Strip(s).            *)
(***************************************************************************)
EXTENDS Integers, Sequences, FiniteSets, TLC

\* ------------------------------------------------------------------ bounds
\* longest transcript / pasted text / uploaded text, in tokens
MaxLen == 3
\* longest text of a service response, in tokens
MaxRespLen == 2

\* ----------------------------------------------------------------- strings
RECURSIVE SeqsUpTo(_, _)
SeqsUpTo(S, n) ==
    IF n = 0 THEN {<<>>}
    ELSE LET shorter == SeqsUpTo(S, n - 1)
         IN  shorter \cup {Append(s, x) : s \in shorter, x \in S}

\* Python: pat in s
Contains(s, pat) ==
    \E i \in 1..(Len(s) - Len(pat) + 1) : SubSeq(s, i, i + Len(pat) - 1) = pat

IsSpace(tok) == tok = " "

RECURSIVE LStrip(_)
LStrip(s) == IF s # <<>> /\ IsSpace(Head(s)) THEN LStrip(Tail(s)) ELSE s

RECURSIVE RStrip(_)
RStrip(s) ==
    IF s # <<>> /\ IsSpace(s[Len(s)]) THEN RStrip(SubSeq(s, 1, Len(s) - 1)) ELSE s

\* Python: s.strip()
Strip(s) == RStrip(LStrip(s))

\* the sentinel substrings the callers branch on
SentError == <<"Error:">>
SentNoSpeech == <<"no speech">>
SentCannot == <<"Cannot generate notes">>
SentCouldNot == <<"Could not generate notes">>
SentCouldNotFull == <<"Could not generate notes", " using Gemini API">>

\* tokens a transcript (spoken, uploaded or pasted) is made of
TextTokens == {"w", " ", "Error:", "no speech"}
Texts == SeqsUpTo(TextTokens, MaxLen)

\* messages carried by the exceptions of the collaborators (str(e))
ExcMsgs == {<<"boom">>, <<"Error:", " boom">>, <<>>}

\* the audio path as it is interpolated into the messages
PathText == <<"/tmp/a1">>

\* ------------------------------------------------ transcribe_audio_whisper
MsgNotLoaded == <<"Error:", " Whisper model not loaded. Cannot transcribe.">>
MsgNotFound == <<"Error:", " Audio file not found at '">> \o PathText \o <<"'">>
MsgEmptyFile ==
    <<"Error:", " Audio file at '">> \o PathText \o <<"' is ", "empty", ". Cannot transcribe.">>
MsgNoSpeech ==
    <<"Whisper recognized ", "no speech", " or produced ", "empty", " transcription.">>
MsgUnexpected(e) ==
    <<"An unexpected error occurred during Whisper transcription: ">> \o e

\* what the progress callback raises, when it raises
CbMsg == <<"callback failed">>

\* states of a file: absent, zero bytes, audio bytes
AudioFileStates == {"absent", "empty", "audio"}
ModelHandles == {"None", "loaded"}
\* progress_callback: not given, given and returning, given and raising
Callbacks == {"none", "ok", "raises"}
\* what model.transcribe does: returns result["text"] or raises
ModelOutcomes ==
    [kind : {"text"}, text : Texts, msg : {<<>>}]
        \cup [kind : {"raise"}, text : {<<>>}, msg : ExcMsgs]

ModelAbsentNever(model) == FALSE
\* line 88: whisper_model_instance is None
ModelAbsent(model) == model = "None"

FileAfterRemoved(file) == "absent"
\* lines 94, 99, 109: exists, getsize and model.transcribe only read the
\* file at audio_file_path; no statement of the function writes or removes it
FileAfter(file) == file

\* a result of the call.  before: the progress reported before the model was
\* called (when it was called); fileAfter: the state of the input file after
\* the call
TRet(val, t, progress, file) ==
    [raised |-> FALSE, ret |-> val, progress |-> progress, before |-> t.before,
     modelCalls |-> t.modelCalls, fsChecks |-> t.fsChecks, fileAfter |-> FileAfter(file)]
TRaise(t, progress, file) ==
    [raised |-> TRUE, ret |-> <<>>, progress |-> progress, before |-> t.before,
     modelCalls |-> t.modelCalls, fsChecks |-> t.fsChecks, fileAfter |-> FileAfter(file)]

\* the call has not gone past line 91
NoTry == [before |-> <<>>, modelCalls |-> 0, fsChecks |-> 0]

\* `if progress_callback: progress_callback(p)` then `return val`, inside the
\* try block: a raising callback turns the return into an exception
TReport(cb, p, val, sofar, modelCalls, fsChecks) ==
    IF cb = "none" THEN
        [kind |-> "return", val |-> val, msg |-> <<>>, progress |-> sofar,
         before |-> sofar, modelCalls |-> modelCalls, fsChecks |-> fsChecks]
    ELSE IF cb = "ok" THEN
        [kind |-> "return", val |-> val, msg |-> <<>>, progress |-> Append(sofar, p),
         before |-> sofar, modelCalls |-> modelCalls, fsChecks |-> fsChecks]
    ELSE
        [kind |-> "except", val |-> <<>>, msg |-> CbMsg, progress |-> Append(sofar, p),
         before |-> sofar, modelCalls |-> modelCalls, fsChecks |-> fsChecks]

TranscriptOfUnstripped(text) == IF Strip(text) = <<>> THEN MsgNoSpeech ELSE text
\* lines 115-118: the value returned after a successful model call
TranscriptOf(text) == IF Strip(text) = <<>> THEN MsgNoSpeech ELSE Strip(text)

FileEmptyNever(file) == FALSE
\* line 99: os.path.getsize(audio_file_path) == 0
FileEmpty(file) == file = "empty"

\* the reset of lines 121-122 left out
ProgressOnExceptionKept(cb, sofar) == sofar
\* lines 121-122: `progress_callback(0)  # Reset or indicate failure`, for a
\* callback that is given; the progress reported once the handler has run
ProgressOnException(cb, sofar) == IF cb = "none" THEN sofar ELSE Append(sofar, 0)

\* lines 94-118: the body of the try block
TranscribeTry(file, cb, outcome) ==
    IF file = "absent" THEN TReport(cb, 0, MsgNotFound, <<>>, 0, 1)
    ELSE IF FileEmpty(file) THEN TReport(cb, 0, MsgEmptyFile, <<>>, 0, 2)
    ELSE IF cb = "raises" THEN
        [kind |-> "except", val |-> <<>>, msg |-> CbMsg, progress |-> <<10>>,
         before |-> <<>>, modelCalls |-> 0, fsChecks |-> 2]
    ELSE LET p10 == IF cb = "none" THEN <<>> ELSE <<10>>
         IN  IF outcome.kind = "raise" THEN
                 [kind |-> "except", val |-> <<>>, msg |-> outcome.msg,
                  progress |-> p10, before |-> p10, modelCalls |-> 1, fsChecks |-> 2]
             ELSE TReport(cb, 100, TranscriptOf(outcome.text), p10, 1, 2)

\* lines 81-123
transcribe_audio_whisper(file, model, cb, outcome) ==
    IF ModelAbsent(model) THEN
        IF cb = "none" THEN TRet(MsgNotLoaded, NoTry, <<>>, file)
        ELSE IF cb = "ok" THEN TRet(MsgNotLoaded, NoTry, <<0>>, file)
        ELSE TRaise(NoTry, <<0>>, file)
    ELSE LET t == TranscribeTry(file, cb, outcome)
         IN  IF t.kind = "return" THEN TRet(t.val, t, t.progress, file)
             \* lines 120-123: except Exception as e
             ELSE IF cb = "raises" THEN
                 TRaise(t, ProgressOnException(cb, t.progress), file)
             ELSE TRet(MsgUnexpected(t.msg), t, ProgressOnException(cb, t.progress), file)

\* app.py line 228: the audio flow classifies the transcription as failed
TranscriptionFailed(content) ==
    Contains(content, SentError) \/ Contains(content, SentNoSpeech)
        \/ Strip(content) = <<>>

\* ------------------------------------------ generate_notes_with_gemini_api
MsgPrecondition == <<"Cannot generate notes", " from empty or failed transcription.">>
MsgNoKey == <<"Gemini API key is not set. ", "Cannot generate notes", ".">>
MsgEmptyResponse(repr) ==
    <<"Gemini API returned an empty or unreadable response. Debug info: ">> \o repr
MsgServiceError(e) ==
    <<"Could not generate notes", " using Gemini API", ": ">> \o e

DefaultFocus ==
    <<"Focus on making complex concepts accessible to beginners while maintaining technical accuracy.">>
\* core_processing.py lines 44-49
NOTE_STYLE_PROMPT == <<"Ensure the notes are suitable for a university-level data science course.">>
Styles == {<<>>, NOTE_STYLE_PROMPT}
Keys == {"", "k1", "k2"}

\* a variant that cuts the transcript to its first two tokens and ignores
\* the caller's style directive
enhanced_promptTruncated(text, style) ==
    <<"<fixed prompt>">> \o DefaultFocus
        \o <<"**Transcript:**">> \o (IF Len(text) > 2 THEN SubSeq(text, 1, 2) ELSE text)
        \o <<"**Final Instruction:**">>
\* lines 143-275: the one request body
enhanced_prompt(text, style) ==
    <<"<fixed prompt>">> \o (IF style # <<>> THEN style ELSE DefaultFocus)
        \o <<"**Transcript:**">> \o text \o <<"**Final Instruction:**">>

\* tokens of a response text
RespTokens == {"w", " ", "Cannot generate notes"}
RespTexts == SeqsUpTo(RespTokens, MaxRespLen)
\* repr(response) in the debug message
RespRepr == <<"<response>">>
\* what the remote service does with the request: a response with a text, a
\* response without a readable text attribute, or an exception (transport,
\* service, or the text accessor)
ServiceOutcomes ==
    [kind : {"text"}, text : RespTexts, msg : {<<>>}]
        \cup [kind : {"notext"}, text : {<<>>}, msg : {<<>>}]
        \cup [kind : {"raise"}, text : {<<>>}, msg : ExcMsgs]

PreconditionFailsNoSpeechDropped(text) == text = <<>> \/ Contains(text, SentError)
\* line 134
PreconditionFails(text) ==
    text = <<>> \/ Contains(text, SentError) \/ Contains(text, SentNoSpeech)

CredentialMissingNever(key) == FALSE
\* line 136
CredentialMissing(key) == key = ""

NRet(path, val, configureCalls, generateCalls, request, usedKey) ==
    [path |-> path, ret |-> val, configureCalls |-> configureCalls,
     generateCalls |-> generateCalls, request |-> request, usedKey |-> usedKey]

\* a variant that sends the request again when the call raised or the
\* response was empty
ServiceCallRetrying(req, key, svc) ==
    IF svc.kind = "raise" THEN
        NRet("exception", MsgServiceError(svc.msg), 1, 2, req, key)
    ELSE IF svc.kind = "text" /\ svc.text # <<>> THEN
        NRet("ok", Strip(svc.text), 1, 1, req, key)
    ELSE NRet("empty", MsgEmptyResponse(RespRepr), 1, 2, req, key)
\* lines 139-140 and 277-287: genai.configure, the one generate_content call
\* and the reading of its response
ServiceCall(req, key, svc) ==
    IF svc.kind = "raise" THEN
        NRet("exception", MsgServiceError(svc.msg), 1, 1, req, key)
    ELSE IF svc.kind = "text" /\ svc.text # <<>> THEN
        NRet("ok", Strip(svc.text), 1, 1, req, key)
    ELSE NRet("empty", MsgEmptyResponse(RespRepr), 1, 1, req, key)

\* lines 126-287.  path names the exit taken: "precondition", "nokey",
\* "empty" (empty or unreadable response), "exception", "ok"
generate_notes_with_gemini_api(text, key, style, svc) ==
    IF PreconditionFails(text) THEN NRet("precondition", MsgPrecondition, 0, 0, <<>>, "")
    ELSE IF CredentialMissing(key) THEN NRet("nokey", MsgNoKey, 0, 0, <<>>, "")
    ELSE ServiceCall(enhanced_prompt(text, style), key, svc)

NotesFailurePaths == {"precondition", "nokey", "empty", "exception"}

\* --------------------------------------------------- create_pdf_from_text
\* states of a file at a PDF path: absent, zero bytes (as NamedTemporaryFile
\* leaves it), content written before the call, the complete document
PdfFileStates == {"absent", "empty", "old", "doc"}
\* what the conversion and the rendering engine do: both succeed,
\* markdown.markdown raises, HTML(...).write_pdf raises before it writes
RenderOutcomes == {"ok", "markdown_raises", "engine_raises"}

Exists(f) == f # "absent"
NonZeroSize(f) == f \notin {"absent", "empty"}

\* lines 291-432: the try block writes the document, the except block only
\* prints; dest is the state of output_pdf_path before the call
create_pdf_from_text(dest, render) ==
    IF render = "ok" THEN [raised |-> FALSE, dest |-> "doc", logged |-> FALSE]
    ELSE [raised |-> FALSE, dest |-> dest, logged |-> TRUE]

\* longest title, in tokens
MaxTitleLen == 2
\* tokens of a title: ordinary text, markup characters, a closing title tag
TitleTokens == {"t", "<", "&", "</title>"}
Titles == SeqsUpTo(TitleTokens, MaxTitleLen)
\* the default of the title parameter, line 291
DefaultTitle == <<"t">>

\* line 424: markdown.markdown of a text without markdown syntax, one
\* paragraph around the text without its outer whitespace, nothing for a
\* blank text
MarkdownHtml(text) ==
    IF Strip(text) = <<>> THEN <<>> ELSE <<"<p>">> \o Strip(text) \o <<"</p>">>

\* lines 303-427: the f-string template; the title is interpolated as it is
html_content(title, body) ==
    <<"<!DOCTYPE html>", "<html>", "<head>", "<meta charset>", "<title>">>
        \o title
        \o <<"</title>", "<style>", "</style>", "</head>", "<body>">>
        \o body
        \o <<"</body>", "</html>">>

\* ------------------------------------------------------------------ app.py
\* longest text a tab of the app receives, in tokens
MaxAppLen == 2
AppTexts == SeqsUpTo(TextTokens, MaxAppLen)
AppModelOutcomes ==
    [kind : {"text"}, text : AppTexts, msg : {<<>>}]
        \cup [kind : {"raise"}, text : {<<>>}, msg : ExcMsgs]

AudioPath == "a1"
PdfPaths == {"p1", "p2", "p3"}
TempPaths == {AudioPath} \cup PdfPaths

NoStage2 == [called |-> FALSE, text |-> <<>>, path |-> "none", audio |-> "absent"]
NoStage3 ==
    [called |-> FALSE, pdf |-> "none", render |-> "none", after |-> "absent",
     reported |-> "none", audio |-> "absent"]

\* lines 136: the caller classifies the notes as failed
NotesFailed(notes_content) ==
    Contains(notes_content, SentCannot) \/ Contains(notes_content, SentCouldNotFull)

\* lines 113-167, on the world w = [fs, created, paths]; pdf is the name
\* NamedTemporaryFile gives the PDF of this call
process_transcription_and_generate_output(w, key, transcript_text, pdf, svc, render) ==
    IF key = "" THEN
        [fs |-> w.fs, created |-> w.created, paths |-> w.paths,
         stage2 |-> NoStage2, stage3 |-> NoStage3, ui |-> {"no_key"}]
    ELSE IF Strip(transcript_text) = <<>> THEN
        [fs |-> w.fs, created |-> w.created, paths |-> w.paths,
         stage2 |-> NoStage2, stage3 |-> NoStage3, ui |-> {"empty_transcription"}]
    ELSE
        LET n == generate_notes_with_gemini_api(transcript_text, key, NOTE_STYLE_PROMPT, svc)
            s2 == [called |-> TRUE, text |-> transcript_text, path |-> n.path,
                   audio |-> w.fs[AudioPath]]
        IN  IF NotesFailed(n.ret) THEN
                [fs |-> w.fs, created |-> w.created, paths |-> w.paths,
                 stage2 |-> s2, stage3 |-> NoStage3, ui |-> {"notes_failed"}]
            ELSE
                \* line 147: the temporary PDF file is created, empty
                LET r == create_pdf_from_text("empty", render)
                    fs2 == [w.fs EXCEPT ![pdf] = r.dest]
                IN  IF Exists(fs2[pdf]) THEN
                        [fs |-> fs2, created |-> w.created \cup {pdf},
                         paths |-> Append(w.paths, pdf),
                         stage2 |-> s2,
                         stage3 |-> [called |-> TRUE, pdf |-> pdf, render |-> render,
                                     after |-> r.dest,
                                     reported |-> "created",
                                     audio |-> w.fs[AudioPath]],
                         ui |-> {"notes_ok", "pdf_created"}]
                    ELSE
                        [fs |-> fs2, created |-> w.created \cup {pdf},
                         paths |-> w.paths,
                         stage2 |-> s2,
                         stage3 |-> [called |-> TRUE, pdf |-> pdf, render |-> render,
                                     after |-> r.dest,
                                     reported |-> "failed",
                                     audio |-> w.fs[AudioPath]],
                         ui |-> {"notes_ok", "pdf_failed"}]

VARIABLES
    pc,                      \* position of the script run
    whisper_model_instance,  \* app.py line 57
    gemini_api_key,          \* app.py lines 61-72
    fs,                      \* state of every temporary path
    created,                 \* temporary paths created during the run
    all_generated_pdf_paths, \* app.py line 189
    transcribed,             \* what Stage 1 returned to the tab that just ran
    stage2,                  \* the Stage 2 invocation of the tab that just ran
    stage3,                  \* the Stage 3 invocation of the tab that just ran
    ui,                      \* what the tab that just ran reported
    tIn, tOut,               \* one direct call of transcribe_audio_whisper
    nIn, nOut,               \* one direct call of generate_notes_with_gemini_api
    pIn, pOut,               \* one direct call of create_pdf_from_text
    genai_api_key,           \* the key genai.configure stored last, process-wide
    inv,                     \* the concurrent invocations of Stage 2
    tmp_audio_files,         \* the temporary .mp3 files that exist
    extractions,             \* calls of extract_audio_from_video made so far
    extracted                \* the last call of extract_audio_from_video

appVars == <<pc, whisper_model_instance, gemini_api_key, fs, created,
             all_generated_pdf_paths, transcribed, stage2, stage3, ui>>
callVars == <<tIn, tOut, nIn, nOut, pIn, pOut>>
concVars == <<genai_api_key, inv>>
extractVars == <<tmp_audio_files, extractions, extracted>>
vars == <<appVars, callVars, concVars, extractVars>>

NoCall == [called |-> FALSE]
NoTranscript == [called |-> FALSE, upload |-> "none", ret |-> <<>>, outcome |-> "none"]

CallsIdle == tIn = NoCall /\ tOut = NoCall /\ nIn = NoCall /\ nOut = NoCall
                /\ pIn = NoCall /\ pOut = NoCall

\* sessions of the app that run Stage 2 at the same time
Invocations == {1, 2}
ConcIdle == genai_api_key = "" /\ inv = <<>>

\* the return value None of extract_audio_from_video; the temporary files
\* are named 1, 2, ...
None == 0
NoExtraction == [called |-> FALSE]
ExtractIdle == tmp_audio_files = {} /\ extractions = 0 /\ extracted = NoExtraction

AppIdle ==
    /\ pc = "off"
    /\ whisper_model_instance = "None"
    /\ gemini_api_key = ""
    /\ fs = [p \in TempPaths |-> "absent"]
    /\ created = {}
    /\ all_generated_pdf_paths = <<>>
    /\ transcribed = NoTranscript
    /\ stage2 = NoStage2
    /\ stage3 = NoStage3
    /\ ui = {}

\* ---- one run of the script app.py
Init ==
    /\ pc = "tab1"
    /\ whisper_model_instance \in ModelHandles
    /\ gemini_api_key \in Keys
    /\ fs = [p \in TempPaths |-> "absent"]
    /\ created = {}
    /\ all_generated_pdf_paths = <<>>
    /\ transcribed = NoTranscript
    /\ stage2 = NoStage2
    /\ stage3 = NoStage3
    /\ ui = {}
    /\ CallsIdle
    /\ ConcIdle
    /\ ExtractIdle

World == [fs |-> fs, created |-> created, paths |-> all_generated_pdf_paths]

Apply(r) ==
    /\ fs' = r.fs
    /\ created' = r.created
    /\ all_generated_pdf_paths' = r.paths
    /\ stage2' = r.stage2
    /\ stage3' = r.stage3
    /\ ui' = r.ui

Nothing(report) ==
    [fs |-> fs, created |-> created, paths |-> all_generated_pdf_paths,
     stage2 |-> NoStage2, stage3 |-> NoStage3, ui |-> report]

\* app.py lines 194-253.  upload: no file, a file of zero bytes, a file with
\* audio bytes
Tab1 ==
    /\ pc = "tab1"
    /\ pc' = "tab2"
    /\ \E upload \in {"none", "empty", "audio"}, outcome \in AppModelOutcomes,
          svc \in ServiceOutcomes, render \in RenderOutcomes :
        IF upload = "none" THEN
            Apply(Nothing({})) /\ transcribed' = NoTranscript
        ELSE IF whisper_model_instance = "None" THEN
            /\ Apply(Nothing({"service_unavailable"}))
            /\ transcribed' = [NoTranscript EXCEPT !.upload = upload]
        ELSE
            \* lines 214-216: the upload is saved to a temporary file
            LET saved == [fs EXCEPT ![AudioPath] = upload]
                made == created \cup {AudioPath}
            IN  IF ~Exists(saved[AudioPath]) \/ ~NonZeroSize(saved[AudioPath]) THEN
                    /\ Apply([Nothing({"upload_empty"}) EXCEPT
                                !.fs = [saved EXCEPT ![AudioPath] = "absent"],
                                !.created = made])
                    /\ transcribed' = [NoTranscript EXCEPT !.upload = upload]
                ELSE
                    LET t == transcribe_audio_whisper(saved[AudioPath],
                                 whisper_model_instance, "ok", outcome)
                        w == [fs |-> saved, created |-> made,
                              paths |-> all_generated_pdf_paths]
                        r == IF TranscriptionFailed(t.ret)
                             THEN [Nothing({"transcription_failed"}) EXCEPT
                                       !.fs = saved, !.created = made]
                             ELSE process_transcription_and_generate_output(
                                      w, gemini_api_key, t.ret, "p1", svc, render)
                    IN  \* lines 247-249: finally, the audio file is removed
                        /\ Apply([r EXCEPT !.fs = [r.fs EXCEPT ![AudioPath] = "absent"]])
                        /\ transcribed' = [called |-> TRUE, upload |-> upload, ret |-> t.ret,
                                           outcome |-> outcome.kind]
    /\ UNCHANGED <<whisper_model_instance, gemini_api_key, callVars, concVars, extractVars>>

\* app.py lines 257-276.  upload: no file, bytes that are not UTF-8 (decode
\* raises and ends the run), or a text
Tab2 ==
    /\ pc = "tab2"
    /\ transcribed' = NoTranscript
    /\ \E upload \in {"none", "undecodable", "text"}, text \in AppTexts,
          svc \in ServiceOutcomes, render \in RenderOutcomes :
        IF upload = "none" THEN
            pc' = "tab3" /\ Apply(Nothing({}))
        ELSE IF upload = "undecodable" THEN
            pc' = "aborted" /\ Apply(Nothing({"exception"}))
        ELSE IF Strip(text) # <<>> THEN
            /\ pc' = "tab3"
            /\ Apply(process_transcription_and_generate_output(
                         World, gemini_api_key, text, "p2", svc, render))
        ELSE
            pc' = "tab3" /\ Apply(Nothing({"upload_blank"}))
    /\ UNCHANGED <<whisper_model_instance, gemini_api_key, callVars, concVars, extractVars>>

\* app.py lines 279-293
Tab3 ==
    /\ pc = "tab3"
    /\ pc' = "download"
    /\ transcribed' = NoTranscript
    /\ \E text \in AppTexts, svc \in ServiceOutcomes, render \in RenderOutcomes :
        IF Strip(text) # <<>> THEN
            Apply(process_transcription_and_generate_output(
                      World, gemini_api_key, text, "p3", svc, render))
        ELSE
            Apply(Nothing({"paste_hint"}))
    /\ UNCHANGED <<whisper_model_instance, gemini_api_key, callVars, concVars, extractVars>>

\* app.py lines 297-329: the archive is offered and the PDFs of
\* all_generated_pdf_paths are removed
DownloadAll ==
    /\ pc = "download"
    /\ pc' = "done"
    /\ fs' = [p \in TempPaths |->
                 IF \E i \in 1..Len(all_generated_pdf_paths) :
                        all_generated_pdf_paths[i] = p
                 THEN "absent" ELSE fs[p]]
    /\ ui' = IF all_generated_pdf_paths # <<>> THEN {"download_all"} ELSE {}
    /\ UNCHANGED <<whisper_model_instance, gemini_api_key, created,
                   all_generated_pdf_paths, transcribed, stage2, stage3, callVars, concVars, extractVars>>

Next == Tab1 \/ Tab2 \/ Tab3 \/ DownloadAll

Spec == Init /\ [][Next]_vars

\* ---- one direct call of transcribe_audio_whisper, on any input
InitTranscribe ==
    /\ AppIdle
    /\ ConcIdle
    /\ ExtractIdle
    /\ \E file \in AudioFileStates, model \in ModelHandles, cb \in {"none", "ok"} :
           tIn = [called |-> FALSE, file |-> file, model |-> model, cb |-> cb]
    /\ tOut = NoCall /\ nIn = NoCall /\ nOut = NoCall /\ pIn = NoCall /\ pOut = NoCall

Transcribe ==
    /\ pc = "off"
    /\ ~tIn.called
    /\ \E outcome \in ModelOutcomes :
        /\ tIn' = [tIn EXCEPT !.called = TRUE]
        /\ tOut' = [called |-> TRUE, outcome |-> outcome,
                    out |-> transcribe_audio_whisper(tIn.file, tIn.model, tIn.cb, outcome)]
    /\ UNCHANGED <<appVars, concVars, extractVars, nIn, nOut, pIn, pOut>>

SpecTranscribe == InitTranscribe /\ [][Transcribe]_vars

\* ---- the same call with any progress callback, a raising one included
InitAnyCallback ==
    /\ AppIdle
    /\ ConcIdle
    /\ ExtractIdle
    /\ \E file \in AudioFileStates, model \in ModelHandles, cb \in Callbacks :
           tIn = [called |-> FALSE, file |-> file, model |-> model, cb |-> cb]
    /\ tOut = NoCall /\ nIn = NoCall /\ nOut = NoCall /\ pIn = NoCall /\ pOut = NoCall

SpecAnyCallback == InitAnyCallback /\ [][Transcribe]_vars

\* ---- Stage 1 both ways: the audio flow of the script, or a direct call
NextAudio == Tab1 \/ Transcribe

SpecAudio == (Init \/ InitTranscribe) /\ [][NextAudio]_vars

\* ---- one direct call of generate_notes_with_gemini_api, on any input
InitNotes ==
    /\ AppIdle
    /\ ConcIdle
    /\ ExtractIdle
    /\ \E text \in Texts, key \in Keys, style \in Styles :
           nIn = [called |-> FALSE, text |-> text, key |-> key, style |-> style]
    /\ nOut = NoCall /\ tIn = NoCall /\ tOut = NoCall /\ pIn = NoCall /\ pOut = NoCall

GenerateNotes ==
    /\ ~nIn.called
    /\ \E svc \in ServiceOutcomes :
        /\ nIn' = [nIn EXCEPT !.called = TRUE]
        /\ nOut' = [called |-> TRUE, svc |-> svc,
                    out |-> generate_notes_with_gemini_api(nIn.text, nIn.key, nIn.style, svc)]
    /\ UNCHANGED <<appVars, concVars, extractVars, tIn, tOut, pIn, pOut>>

SpecNotes == InitNotes /\ [][GenerateNotes]_vars

\* ---- one direct call of create_pdf_from_text, on any destination
InitPdf ==
    /\ AppIdle
    /\ ConcIdle
    /\ ExtractIdle
    /\ \E dest \in PdfFileStates \ {"doc"}, text \in Texts, title \in Titles :
           pIn = [called |-> FALSE, dest |-> dest, markdown_text |-> text,
                  title |-> title]
    /\ pOut = NoCall /\ tIn = NoCall /\ tOut = NoCall /\ nIn = NoCall /\ nOut = NoCall

CreatePdf ==
    /\ ~pIn.called
    /\ \E render \in RenderOutcomes :
        /\ pIn' = [pIn EXCEPT !.called = TRUE]
        /\ pOut' = [called |-> TRUE, render |-> render,
                    html |-> IF render = "markdown_raises" THEN <<>>
                             ELSE html_content(pIn.title, MarkdownHtml(pIn.markdown_text)),
                    out |-> create_pdf_from_text(pIn.dest, render)]
    /\ UNCHANGED <<appVars, concVars, extractVars, tIn, tOut, nIn, nOut>>

SpecPdf == InitPdf /\ [][CreatePdf]_vars

\* ---- two invocations of generate_notes_with_gemini_api that have passed
\* lines 134-137 and run in two threads of one process: genai.configure
\* (line 140) stores the key in the state of the genai module, and
\* generate_content (line 278) sends the request under the stored key
ValidTexts == {t \in AppTexts : ~PreconditionFails(t)}

InitConcurrent ==
    /\ AppIdle
    /\ CallsIdle
    /\ ExtractIdle
    /\ genai_api_key = ""
    /\ inv \in [Invocations ->
                  [pc : {"start"}, text : ValidTexts, key : Keys \ {""},
                   out : {NoCall}]]

\* line 140
Configure(i) ==
    /\ inv # <<>>
    /\ inv[i].pc = "start"
    /\ genai_api_key' = inv[i].key
    /\ inv' = [inv EXCEPT ![i].pc = "configured"]
    /\ UNCHANGED <<appVars, callVars, extractVars>>

\* lines 277-287
GenerateContent(i) ==
    /\ inv # <<>>
    /\ inv[i].pc = "configured"
    /\ \E svc \in ServiceOutcomes :
           inv' = [inv EXCEPT
                      ![i].pc = "done",
                      ![i].out = ServiceCall(
                          enhanced_prompt(inv[i].text, NOTE_STYLE_PROMPT),
                          genai_api_key, svc)]
    /\ UNCHANGED <<appVars, callVars, extractVars, genai_api_key>>

NextConcurrent == \E i \in Invocations : Configure(i) \/ GenerateContent(i)

SpecConcurrent == InitConcurrent /\ [][NextConcurrent]_vars

\* ------------------------------------------------ extract_audio_from_video
\* calls of extract_audio_from_video in one behaviour
MaxExtractions == 4
\* the file at video_file_path: missing, not decodable, an mp4 with audio
VideoStates == {"absent", "undecodable", "mp4"}

CleanupSkipped(files, audio_output_path) == files
\* lines 76-77: the except block removes the temporary file it knows of
CleanupAfterFailure(files, audio_output_path) ==
    IF audio_output_path # None /\ audio_output_path \in files
    THEN files \ {audio_output_path} ELSE files

XRet(ret, tmp, files, step) ==
    [raised |-> FALSE, ret |-> ret, tmp |-> tmp, files |-> files, step |-> step]

\* lines 52-78.  files: the temporary files that exist; name: the name
\* NamedTemporaryFile gives; tempOk, exportOk: whether NamedTemporaryFile
\* and audio.export succeed; AudioSegment.from_file succeeds on an mp4 only.
\* step names the statement the call ended at
extract_audio_from_video(files, name, video, tempOk, exportOk) ==
    IF ~tempOk THEN
        \* line 61 raised, audio_output_path is still None
        XRet(None, None, CleanupAfterFailure(files, None), "tempfile")
    ELSE LET made == files \cup {name}
         IN  IF video # "mp4" THEN
                 XRet(None, name, CleanupAfterFailure(made, name), "from_file")
             ELSE IF ~exportOk THEN
                 XRet(None, name, CleanupAfterFailure(made, name), "export")
             ELSE XRet(name, name, made, "return")

\* ---- direct calls of extract_audio_from_video, one after the other
InitExtract ==
    /\ AppIdle
    /\ CallsIdle
    /\ ConcIdle
    /\ ExtractIdle

ExtractAudio ==
    /\ pc = "off"
    /\ inv = <<>>
    /\ extractions < MaxExtractions
    /\ \E video \in VideoStates, tempOk \in BOOLEAN, exportOk \in BOOLEAN :
        LET x == extract_audio_from_video(tmp_audio_files, extractions + 1,
                                          video, tempOk, exportOk)
        IN  /\ extractions' = extractions + 1
            /\ tmp_audio_files' = x.files
            /\ extracted' = [called |-> TRUE, video |-> video, before |-> tmp_audio_files,
                             out |-> x]
    /\ UNCHANGED <<appVars, callVars, concVars>>

SpecExtract == InitExtract /\ [][ExtractAudio]_vars

\* ------------------------------------------------------------------ claims
\* a transcript Stage 2 must refuse: empty, or carrying a failure sentinel
BadTranscript(text) ==
    text = <<>> \/ Contains(text, SentError) \/ Contains(text, SentNoSpeech)

\* a result of Stage 2 that carries a NotesMarkdown failure sentinel
HasNotesSentinel(s) == Contains(s, SentCannot) \/ Contains(s, SentCouldNot)

\* a result of Stage 1 that carries a TranscriptText failure sentinel
HasTranscriptSentinel(s) == Contains(s, SentError) \/ Contains(s, SentNoSpeech)

\* C1: for an empty or sentinel-bearing transcript, generate_notes_with_gemini_api
\* returns a failure string and reaches neither genai.configure nor
\* generate_content, whatever the credential and the style directive
C1_BadTranscriptNoRemoteCall ==
    (nOut.called /\ BadTranscript(nIn.text)) =>
        /\ HasNotesSentinel(nOut.out.ret)
        /\ nOut.out.configureCalls = 0
        /\ nOut.out.generateCalls = 0

C1_Witness ==
    /\ nOut.called
    /\ nIn.key = "k1"
    /\ nIn.text = <<"w", "no speech">>
    /\ nOut.svc.kind = "text"
    /\ nOut.out.ret = MsgPrecondition
    /\ nOut.out.generateCalls = 0

\* C2: with the model handle None, transcribe_audio_whisper returns a string
\* containing "Error:" for every audio path, calls the model's transcribe
\* never and checks the file system (exists, getsize) never
C2_NoModelNoIO ==
    (tOut.called /\ tIn.model = "None") =>
        /\ ~tOut.out.raised
        /\ Contains(tOut.out.ret, SentError)
        /\ tOut.out.modelCalls = 0
        /\ tOut.out.fsChecks = 0

C2_Witness ==
    /\ tOut.called
    /\ tIn.model = "None"
    /\ tIn.file = "audio"
    /\ tOut.outcome.kind = "text"
    /\ tOut.out.ret = MsgNotLoaded

\* C3: whenever the model's transcribe call raises, transcribe_audio_whisper
\* does not raise and returns a string that contains "Error:" or "no speech"
C3_ModelExceptionIsSentinel ==
    (tOut.called /\ tOut.out.modelCalls = 1 /\ tOut.outcome.kind = "raise") =>
        /\ ~tOut.out.raised
        /\ HasTranscriptSentinel(tOut.out.ret)

\* C4: in every flow of the caller, generate_notes_with_gemini_api is never
\* invoked with a text that is empty or contains "Error:" or "no speech"
C4_Stage2NeverGetsBadTranscript ==
    stage2.called => ~BadTranscript(stage2.text)

\* the strings a failure outcome of Stage 2 can return
FailureStrings(path) ==
    IF path = "precondition" THEN {MsgPrecondition}
    ELSE IF path = "nokey" THEN {MsgNoKey}
    ELSE IF path = "empty" THEN {MsgEmptyResponse(RespRepr)}
    ELSE {MsgServiceError(e) : e \in ExcMsgs}

\* C5: each of the four failure outcomes of generate_notes_with_gemini_api
\* returns a string containing "Cannot generate notes" or "Could not generate
\* notes", and the strings of different outcomes differ
C5_FailuresCarrySentinel ==
    (nOut.called /\ nOut.out.path \in NotesFailurePaths) =>
        /\ HasNotesSentinel(nOut.out.ret)
        /\ \A other \in NotesFailurePaths \ {nOut.out.path} :
               nOut.out.ret \notin FailureStrings(other)

\* C6: when note synthesis ended in a failure of any kind, the caller does
\* not invoke create_pdf_from_text and offers no PDF
C6_NoRenderingAfterFailedNotes ==
    (stage2.called /\ stage2.path \in NotesFailurePaths) =>
        /\ ~stage3.called
        /\ "pdf_created" \notin ui

\* C7: for a valid transcript and an empty credential,
\* generate_notes_with_gemini_api returns an error string that differs from
\* the one it returns for an empty transcript, and calls the service never
C7_EmptyCredentialDistinctError ==
    (nOut.called /\ ~BadTranscript(nIn.text) /\ nIn.key = "") =>
        /\ HasNotesSentinel(nOut.out.ret)
        /\ nOut.out.ret #
               generate_notes_with_gemini_api(<<>>, nIn.key, nIn.style, nOut.svc).ret
        /\ nOut.out.configureCalls = 0
        /\ nOut.out.generateCalls = 0

C7_Witness ==
    /\ nOut.called
    /\ nIn.text = <<"w", " ", "w">>
    /\ nIn.key = ""
    /\ nOut.svc.kind = "text"
    /\ nOut.out.ret = MsgNoKey

\* C8: when a run of the caller has finished, normally or by an exception,
\* every temporary audio and PDF file created during the run is deleted
C8_TempFilesReleased ==
    pc \in {"done", "aborted"} => \A p \in created : fs[p] = "absent"

\* C9: create_pdf_from_text never raises, and leaves at the destination the
\* complete document when rendering succeeded and no file when the markdown
\* conversion or the engine failed, whatever was there before
C9_DocumentOrNothing ==
    pOut.called =>
        /\ ~pOut.out.raised
        /\ pOut.render = "ok" => pOut.out.dest = "doc"
        /\ pOut.render # "ok" => pOut.out.dest = "absent"

\* C10: the caller reports a PDF as created only when the destination exists
\* with non-zero size after create_pdf_from_text, and reports the failure
\* whenever rendering failed
C10_ReportMatchesFile ==
    stage3.called =>
        /\ stage3.reported = "created" =>
               (NonZeroSize(stage3.after)
                    /\ NonZeroSize(fs[stage3.pdf]) /\ "pdf_created" \in ui)
        /\ stage3.render # "ok" =>
               (stage3.reported = "failed" /\ "pdf_failed" \in ui)
\* C11: an invocation of generate_notes_with_gemini_api that passes its
\* preconditions issues exactly one generate_content call, also when the
\* call raises or the response is empty
C11_ExactlyOneServiceCall ==
    (nOut.called /\ ~BadTranscript(nIn.text) /\ nIn.key # "") =>
        /\ nOut.out.generateCalls = 1
        /\ nOut.out.configureCalls = 1

C11_Witness ==
    /\ nOut.called
    /\ nIn.text = <<"w">>
    /\ nIn.key = "k2"
    /\ nOut.svc.kind = "raise"
    /\ nOut.out.path = "exception"
    /\ nOut.out.generateCalls = 1

\* C19: for a transcript that passes the preconditions, the single request
\* contains the complete transcript unmodified, between the transcript
\* header and the final instruction, together with the caller's style
\* directive, or the default focus sentence when the directive is empty
C19_WholeTranscriptInRequest ==
    (nOut.called /\ ~BadTranscript(nIn.text) /\ nIn.key # "") =>
        /\ nOut.out.generateCalls = 1
        /\ Contains(nOut.out.request,
                    <<"**Transcript:**">> \o nIn.text \o <<"**Final Instruction:**">>)
        /\ Contains(nOut.out.request,
                    IF nIn.style = <<>> THEN DefaultFocus ELSE nIn.style)
        /\ nIn.style # <<>> => ~Contains(nOut.out.request, DefaultFocus)

C19_Witness ==
    /\ nOut.called
    /\ nIn.text = <<"w", " ", "w">>
    /\ nIn.key = "k1"
    /\ nIn.style = NOTE_STYLE_PROMPT
    /\ nOut.out.path = "ok"
    /\ Contains(nOut.out.request, <<"w", " ", "w">>)

\* C12: for a zero-byte audio file at an existing path and a loaded model,
\* transcribe_audio_whisper returns a string containing "Error:" and "empty"
\* without calling the model, and in the audio flow of the caller no note
\* synthesis is invoked for a zero-byte upload
C12_EmptyAudioHalts ==
    /\ (tOut.called /\ tIn.file = "empty" /\ tIn.model = "loaded") =>
        /\ ~tOut.out.raised
        /\ Contains(tOut.out.ret, SentError)
        /\ Contains(tOut.out.ret, <<"empty">>)
        /\ tOut.out.modelCalls = 0
    /\ transcribed.upload = "empty" => (~stage2.called /\ ~stage3.called)

C12_Witness ==
    /\ tOut.called
    /\ tIn.file = "empty"
    /\ tIn.model = "loaded"
    /\ tOut.outcome.kind = "text"
    /\ tOut.out.ret = MsgEmptyFile

\* the model was called on an existing non-empty file and returned a text
\* with at least one non-whitespace token
SpeechRecognized ==
    /\ tOut.called
    /\ tIn.file = "audio"
    /\ tIn.model = "loaded"
    /\ tOut.outcome.kind = "text"
    /\ \E i \in 1..Len(tOut.outcome.text) : ~IsSpace(tOut.outcome.text[i])

Trimmed(s) == s # <<>> /\ ~IsSpace(s[1]) /\ ~IsSpace(s[Len(s)])

\* C13 as stated: for every existing non-empty audio file for which the
\* model returns text with a non-whitespace character,
\* transcribe_audio_whisper returns non-empty trimmed text that contains
\* neither "Error:" nor "no speech"
C13_Original ==
    SpeechRecognized =>
        /\ ~tOut.out.raised
        /\ Trimmed(tOut.out.ret)
        /\ ~HasTranscriptSentinel(tOut.out.ret)

\* C13 as amended: the result is the model's text with leading and trailing
\* whitespace removed, non-empty, and it contains "Error:" or "no speech"
\* exactly when the recognized text itself contains it
C13_TrimmedRecognizedText ==
    SpeechRecognized =>
        /\ ~tOut.out.raised
        /\ Trimmed(tOut.out.ret)
        /\ \E i, j \in 1..Len(tOut.outcome.text) :
               /\ tOut.out.ret = SubSeq(tOut.outcome.text, i, j)
               /\ \A k \in 1..Len(tOut.outcome.text) :
                      (k < i \/ k > j) => IsSpace(tOut.outcome.text[k])
        /\ HasTranscriptSentinel(tOut.out.ret) <=>
               HasTranscriptSentinel(tOut.outcome.text)

C13_Witness ==
    /\ SpeechRecognized
    /\ tOut.outcome.text = <<" ", "w", " ">>
    /\ tOut.out.ret = <<"w">>

NonDecreasing(seq) == \A i \in 1..(Len(seq) - 1) : seq[i] <= seq[i + 1]

\* the model was called and returned (success or no speech)
ModelReturned == tOut.called /\ tOut.out.modelCalls = 1 /\ tOut.outcome.kind = "text"
\* the model was called and raised
ModelRaised == tOut.called /\ tOut.out.modelCalls = 1 /\ tOut.outcome.kind = "raise"

\* C14 as stated: the values passed to the progress callback within one call
\* are non-decreasing on every path, and when the model returns, 10 is
\* reported before the model call and 100 after it
C14_Original ==
    tOut.called =>
        /\ NonDecreasing(tOut.out.progress)
        /\ (ModelReturned /\ tIn.cb = "ok") =>
               (tOut.out.before = <<10>> /\ tOut.out.progress = <<10, 100>>)

\* C14 as amended: the values are non-decreasing on every path on which the
\* model call does not raise; when the model call raises, 10 is followed by
\* the reset to 0; when the model returns, 10 is reported before the model
\* call and 100 after it
C14_ProgressResetOnException ==
    tOut.called =>
        /\ ~ModelRaised => NonDecreasing(tOut.out.progress)
        /\ (ModelRaised /\ tIn.cb = "ok") => tOut.out.progress = <<10, 0>>
        /\ (ModelReturned /\ tIn.cb = "ok") =>
               (tOut.out.before = <<10>> /\ tOut.out.progress = <<10, 100>>)
        /\ tIn.cb = "none" => tOut.out.progress = <<>>

C14_Witness ==
    /\ ModelRaised
    /\ tIn.cb = "ok"
    /\ tOut.out.progress = <<10, 0>>

\* C16: transcribe_audio_whisper leaves the input audio file as it was, on
\* every path: success, error report, model exception
C16_InputFileUnchanged ==
    tOut.called => tOut.out.fileAfter = tIn.file

C16_Witness ==
    /\ ModelRaised
    /\ tIn.file = "audio"
    /\ tOut.out.fileAfter = "audio"
    /\ ~tOut.out.raised

\* C20: the progress callback has no influence on the outcome: the call with
\* a callback returns the string the call without one returns, and does not
\* raise even when the callback raises
C20_CallbackHasNoInfluence ==
    tOut.called =>
        /\ ~tOut.out.raised
        /\ tOut.out.ret =
               transcribe_audio_whisper(tIn.file, tIn.model, "none", tOut.outcome).ret

\* C15: in the audio flow the temporary audio file no longer exists when
\* note synthesis or rendering starts for that upload
C15_AudioGoneBeforeStage2 ==
    /\ (transcribed.called /\ stage2.called) => stage2.audio = "absent"
    /\ (transcribed.called /\ stage3.called) => stage3.audio = "absent"

\* the position of the first tok of s at or after position from
RECURSIVE FirstAt(_, _, _)
FirstAt(s, tok, from) ==
    IF from > Len(s) THEN Len(s) + 1
    ELSE IF s[from] = tok THEN from
    ELSE FirstAt(s, tok, from + 1)

\* the document as an HTML parser structures it, without the text of its
\* title element: the title element ends at the first closing title tag
Envelope(html) ==
    LET open == FirstAt(html, "<title>", 1)
        close == FirstAt(html, "</title>", open + 1)
    IN  SubSeq(html, 1, open) \o SubSeq(html, close, Len(html))

\* C18: for every title, markup characters and a closing title tag included,
\* the template envelope of the HTML that create_pdf_from_text builds is the
\* envelope it has for a plain title
C18_TitleKeepsEnvelope ==
    (pOut.called /\ pOut.render # "markdown_raises") =>
        Envelope(pOut.html) =
            Envelope(html_content(DefaultTitle, MarkdownHtml(pIn.markdown_text)))

\* C17: when two invocations of generate_notes_with_gemini_api interleave,
\* every outbound request is made under the credential that was passed to
\* its own invocation
C17_RequestUnderOwnCredential ==
    \A i \in DOMAIN inv :
        inv[i].pc = "done" => inv[i].out.usedKey = inv[i].key

\* the invocation went past lines 134-137 and the service answered with a
\* text that is empty or whitespace only
BlankResponse ==
    /\ nOut.called
    /\ ~BadTranscript(nIn.text)
    /\ nIn.key # ""
    /\ nOut.svc.kind = "text"
    /\ \A i \in 1..Len(nOut.svc.text) : IsSpace(nOut.svc.text[i])

\* C21: generate_notes_with_gemini_api never returns an empty string: an
\* empty or whitespace-only response text gives the empty-response error
\* string, and every result that is not an error is non-empty trimmed text
C21_NeverEmptyResult ==
    nOut.called =>
        /\ nOut.out.ret # <<>>
        /\ BlankResponse => nOut.out.ret = MsgEmptyResponse(RespRepr)
        /\ nOut.out.path = "ok" => Trimmed(nOut.out.ret)

\* C22: extract_audio_from_video never raises and returns either the path of
\* an existing temporary audio file, when loading and exporting succeeded, or
\* None, and whenever it returns None the temporary file it created no
\* longer exists
C22_PathOrNoneAndCleaned ==
    extracted.called =>
        /\ ~extracted.out.raised
        /\ extracted.out.ret # None =>
               /\ extracted.out.ret \in tmp_audio_files
               /\ extracted.out.ret = extracted.out.tmp
               /\ extracted.out.step = "return"
               /\ extracted.video = "mp4"
        /\ extracted.out.ret = None =>
               /\ extracted.out.step # "return"
               /\ extracted.out.tmp \notin tmp_audio_files
               /\ tmp_audio_files = extracted.before

C22_Witness ==
    /\ extracted.called
    /\ extractions = 2
    /\ extracted.video = "mp4"
    /\ extracted.out.step = "export"
    /\ extracted.out.ret = None
    /\ extracted.out.tmp = 2
    /\ tmp_audio_files = {1}
=============================================================================
